---- MODULE Spec2Model ----
(***************************************************************************)
(* Model of torch/utils/_benchmark/op_fuzzers/binary.py:                   *)
(*   - the parameter space and the two tensor requests that                *)
(*     BinaryOpFuzzer.__init__ declares,                                   *)
(*   - the sampling engine (Fuzzer / FuzzedParameter / FuzzedTensor) that  *)
(*     resolves one trial from that declaration, and                       *)
(*   - BinaryOpFuzzer.structure_params, statement by statement.            *)
(*                                                                         *)
(* Python dicts are functions whose domain is a set of strings, tuples are *)
(* sequences.  Python integers are unbounded while TLC's are 32 bit, so    *)
(* products are computed saturating at Cap, which lies above every         *)
(* threshold they are compared with.                                       *)
(***************************************************************************)
EXTENDS Integers, Sequences, FiniteSets, TLC

(***************************************************************************)
(* Module-level tables, binary.py:6-27                                     *)
(***************************************************************************)
SMALL == "small"
MEDIUM == "medium"
LARGE == "large"
Scales == {SMALL, MEDIUM, LARGE}

_MIN_DIM_SIZE == 8

_MAX_DIM_SIZE ==
    [scale \in Scales |->
        CASE scale = SMALL  -> 128
          [] scale = MEDIUM -> 1024
          [] scale = LARGE  -> 16 * 1024 * 1024]

_MIN_ELEMENTS ==
    [scale \in Scales |->
        CASE scale = SMALL  -> 0
          [] scale = MEDIUM -> 128
          [] scale = LARGE  -> 4 * 1024]

\* max_elements of the request for x, binary.py:103
MAX_ELEMENTS == 32 * 1024 * 1024

\* Saturation point of the products (2^30).
Cap == 1024 * 1024 * 1024

RECURSIVE Pow2(_)
Pow2(i) == IF i = 0 THEN 1 ELSE 2 * Pow2(i - 1)

\* int(np.log2(n)) for n >= 1: the largest e with 2^e <= n.
RECURSIVE Log2Floor(_)
Log2Floor(n) == IF n < 2 THEN 0 ELSE 1 + Log2Floor(n \div 2)

\* range(lo, hi) of Python: lo, lo+1, ..., hi-1.
PyRange(lo, hi) == lo .. (hi - 1)

_POW_TWO_SIZES_off ==
    [scale \in Scales |->
        {Pow2(i) : i \in PyRange(Log2Floor(_MIN_DIM_SIZE),
                                 Log2Floor(_MAX_DIM_SIZE[scale]) + 2)}]

_POW_TWO_SIZES ==
    [scale \in Scales |->
        {Pow2(i) : i \in PyRange(Log2Floor(_MIN_DIM_SIZE),
                                 Log2Floor(_MAX_DIM_SIZE[scale]) + 1)}]

(***************************************************************************)
(* The declaration built by BinaryOpFuzzer.__init__, binary.py:31-123      *)
(***************************************************************************)
Axes == PyRange(0, 3)

AxisChar(i) == CASE i = 0 -> "0" [] i = 1 -> "1" [] i = 2 -> "2" [] OTHER -> "3"

\* The f-strings of binary.py:49,57,63,74,86.
KAnyName(i)  == "k_any_" \o AxisChar(i)
KPow2Name(i) == "k_pow2_" \o AxisChar(i)
KName(i)     == "k" \o AxisChar(i)
YKName(i)    == "y_k" \o AxisChar(i)
StepName(name, i) == name \o "_step_" \o AxisChar(i)

\* An outcome of a distribution: a literal value or ParameterAlias(name).
Lit(v) == [is_alias |-> FALSE, name |-> "", value |-> v]
ParameterAlias(n) == [is_alias |-> TRUE, name |-> n, value |-> 0]

\* FuzzedParameter(name, minval, maxval, distribution, strict).  A dict
\* distribution is kept as the set of its outcomes (all weights in the
\* source are positive); minval/maxval are 0 when not given.
Discrete(outcomes, strict) ==
    [kind |-> "discrete", minval |-> 0, maxval |-> 0,
     outcomes |-> outcomes, strict |-> strict]
Ranged(kind, minval, maxval) ==
    [kind |-> kind, minval |-> minval, maxval |-> maxval,
     outcomes |-> {}, strict |-> FALSE]

FuzzedParameter(name, dist) == [name |-> name, dist |-> dist]

DimParameter_wide ==
    FuzzedParameter("dim", Discrete({Lit(1), Lit(2), Lit(3), Lit(4)}, TRUE))

\* binary.py:35
DimParameter ==
    FuzzedParameter("dim", Discrete({Lit(1), Lit(2), Lit(3)}, TRUE))

\* binary.py:47-54
KAnyParameters(scale) ==
    {FuzzedParameter(KAnyName(i),
                     Ranged("loguniform", _MIN_DIM_SIZE, _MAX_DIM_SIZE[scale]))
        : i \in Axes}

\* binary.py:55-60
KPow2Parameters(scale) ==
    {FuzzedParameter(KPow2Name(i),
                     Discrete({Lit(size) : size \in _POW_TWO_SIZES[scale]}, FALSE))
        : i \in Axes}

\* binary.py:61-70
KParameters ==
    {FuzzedParameter(KName(i),
                     Discrete({ParameterAlias(KAnyName(i)),
                               ParameterAlias(KPow2Name(i))}, TRUE))
        : i \in Axes}

YKParameters_shifted ==
    {FuzzedParameter(YKName(i),
                     Discrete({ParameterAlias(KName((i + 1) % 3)), Lit(1)}, TRUE))
        : i \in Axes}

YKParameters_independent ==
    {FuzzedParameter(YKName(i),
                     Discrete({ParameterAlias(KAnyName(i)), Lit(1)}, TRUE))
        : i \in Axes}

\* binary.py:72-81
YKParameters ==
    {FuzzedParameter(YKName(i),
                     Discrete({ParameterAlias(KName(i)), Lit(1)}, TRUE))
        : i \in Axes}

\* binary.py:84-91
StepParameters ==
    {FuzzedParameter(StepName(name, i),
                     Discrete({Lit(1), Lit(2), Lit(4), Lit(8), Lit(16)}, FALSE))
        : i \in Axes, name \in {"x", "y"}}

\* Stand-in for the maxval 2 ** 32 - 1 of random_value (binary.py:94), which
\* no TLC integer can hold; the value is only carried and then dropped.
MaxRandomValue == 1

\* binary.py:94
RandomValueParameter ==
    FuzzedParameter("random_value", Ranged("uniform", 0, MaxRandomValue))

\* The parameters= argument, binary.py:33-95
parameters(scale) ==
    {DimParameter} \cup KAnyParameters(scale) \cup KPow2Parameters(scale)
        \cup KParameters \cup YKParameters \cup StepParameters
        \cup {RandomValueParameter}

\* An argument that is not passed (the engine's default).
None == 0 - 1

\* Bytes per element of the default dtype=torch.float32, binary.py:31
DtypeSize == 4

\* max_allocation_bytes = 2 * 1024**3 (binary.py:104,115) in elements of the
\* dtype: the byte count itself exceeds a TLC integer.
MaxAllocationElements == 2 * 1024 * 1024 * (1024 \div DtypeSize)

FuzzedTensor(name, size, steps, min_elements, max_elements) ==
    [name |-> name, size |-> size, steps |-> steps,
     min_elements |-> min_elements, max_elements |-> max_elements,
     max_allocation_elements |-> MaxAllocationElements,
     dim_parameter |-> "dim"]

XTensor_smallfloor(scale) ==
    FuzzedTensor("x", <<"k0", "k1", "k2">>,
                 <<"x_step_0", "x_step_1", "x_step_2">>,
                 _MIN_ELEMENTS[SMALL], MAX_ELEMENTS)

\* binary.py:97-109
XTensor(scale) ==
    FuzzedTensor("x", <<"k0", "k1", "k2">>,
                 <<"x_step_0", "x_step_1", "x_step_2">>,
                 _MIN_ELEMENTS[scale], MAX_ELEMENTS)

\* binary.py:110-120: neither min_elements nor max_elements is passed.
YTensor ==
    FuzzedTensor("y", <<"y_k0", "y_k1", "y_k2">>,
                 <<"y_step_0", "y_step_1", "y_step_2">>,
                 None, None)

\* The tensors= argument, binary.py:96-121
tensors(scale) == {XTensor(scale), YTensor}

(***************************************************************************)
(* The sampling engine (torch.utils._benchmark Fuzzer, FuzzedParameter,    *)
(* FuzzedTensor).  Its code is not part of binary.py; it is modelled from  *)
(* the interface the specification gives it.                               *)
(***************************************************************************)
Param(decl, n) == CHOOSE p \in decl : p.name = n

Literals(outcomes) == {o.value : o \in {q \in outcomes : ~q.is_alias}}
SetMin(S) == CHOOSE v \in S : \A w \in S : v <= w
SetMax(S) == CHOOSE v \in S : \A w \in S : w <= v
\* The median of a non-empty set of integers (the upper one of two).
SetMid(S) == CHOOSE v \in S :
                 Cardinality({w \in S : w < v}) = Cardinality(S) \div 2

\* Every value a parameter may resolve to lies in its distribution: an
\* outcome of a discrete one, an integer of [minval, maxval] for a range.
\* The draws explored are the aliases, every literal of a strict parameter,
\* and of the other literals the least, the median and the greatest (wide)
\* or the least alone (narrow); of a range both ends (wide) or the lower
\* end (narrow).
WideDraws(dist) ==
    IF dist.kind = "discrete"
    THEN {o \in dist.outcomes : o.is_alias \/ dist.strict}
         \cup (IF Literals(dist.outcomes) = {} THEN {}
               ELSE {Lit(SetMin(Literals(dist.outcomes))),
                     Lit(SetMid(Literals(dist.outcomes))),
                     Lit(SetMax(Literals(dist.outcomes)))})
    ELSE {Lit(dist.minval), Lit(dist.maxval)}

NarrowDraws(dist) ==
    IF dist.kind = "discrete"
    THEN {o \in dist.outcomes : o.is_alias \/ dist.strict}
         \cup (IF Literals(dist.outcomes) = {} THEN {}
               ELSE {Lit(SetMin(Literals(dist.outcomes)))})
    ELSE {Lit(dist.minval)}

\* p.sample(state) for the parameter named n.
Sample(decl, wide, n) ==
    IF n \in wide THEN WideDraws(Param(decl, n).dist)
    ELSE NarrowDraws(Param(decl, n).dist)

\* One draw of every declared parameter, each independent of the others.
Draws(decl, wide) ==
    [dim          : Sample(decl, wide, "dim"),
     k_any_0      : Sample(decl, wide, "k_any_0"),
     k_any_1      : Sample(decl, wide, "k_any_1"),
     k_any_2      : Sample(decl, wide, "k_any_2"),
     k_pow2_0     : Sample(decl, wide, "k_pow2_0"),
     k_pow2_1     : Sample(decl, wide, "k_pow2_1"),
     k_pow2_2     : Sample(decl, wide, "k_pow2_2"),
     k0           : Sample(decl, wide, "k0"),
     k1           : Sample(decl, wide, "k1"),
     k2           : Sample(decl, wide, "k2"),
     y_k0         : Sample(decl, wide, "y_k0"),
     y_k1         : Sample(decl, wide, "y_k1"),
     y_k2         : Sample(decl, wide, "y_k2"),
     x_step_0     : Sample(decl, wide, "x_step_0"),
     x_step_1     : Sample(decl, wide, "x_step_1"),
     x_step_2     : Sample(decl, wide, "x_step_2"),
     y_step_0     : Sample(decl, wide, "y_step_0"),
     y_step_1     : Sample(decl, wide, "y_step_1"),
     y_step_2     : Sample(decl, wide, "y_step_2"),
     random_value : Sample(decl, wide, "random_value")]

\* The slices of the draw space that are explored: the axis sizes at their
\* extremes, the strides of x at theirs, the strides of y at theirs.
SizeNames == {KAnyName(i) : i \in Axes} \cup {KPow2Name(i) : i \in Axes}
XStepNames == {StepName("x", i) : i \in Axes} \cup {"random_value"}
YStepNames == {StepName("y", i) : i \in Axes} \cup {"random_value"}
Slices == {SizeNames, XStepNames, YStepNames}

\* An alias outcome takes the resolved value of the parameter it names.
RECURSIVE ResolvedValue(_, _)
ResolvedValue(draw, n) ==
    IF draw[n].is_alias THEN ResolvedValue(draw, draw[n].name)
    ELSE draw[n].value

\* The Raw Sample: every declared name with its resolved scalar.
ResolveAliases(draw) == [n \in DOMAIN draw |-> ResolvedValue(draw, n)]

SatMul(a, b) ==
    IF a = 0 \/ b = 0 THEN 0
    ELSE IF a > Cap \div b THEN Cap ELSE a * b

RECURSIVE Prod(_)
Prod(t) == IF t = <<>> THEN 1 ELSE SatMul(Prod(Tail(t)), Head(t))

Min(a, b) == IF a < b THEN a ELSE b
Max(a, b) == IF a < b THEN b ELSE a

\* t[:stop] of Python.
SliceTo(t, stop) ==
    SubSeq(t, 1, IF stop < 0 THEN Max(Len(t) + stop, 0) ELSE Min(stop, Len(t)))

\* Size and strides of a tensor request under a raw sample, truncated to
\* the sampled dimensionality.
TensorSize(t, params) ==
    SliceTo([i \in 1..Len(t.size) |-> params[t.size[i]]], params[t.dim_parameter])
TensorSteps(t, params) ==
    SliceTo([i \in 1..Len(t.steps) |-> params[t.steps[i]]], params[t.dim_parameter])
TensorAllocation(t, params) ==
    [i \in 1..Len(TensorSize(t, params)) |->
        SatMul(TensorSize(t, params)[i], TensorSteps(t, params)[i])]

nullable_greater(left, right) ==
    IF left = None \/ right = None THEN FALSE ELSE left > right

\* The element and allocation budgets of one tensor request.
satisfies_constraints(t, params) ==
    /\ ~nullable_greater(Prod(TensorSize(t, params)), t.max_elements)
    /\ ~nullable_greater(t.min_elements, Prod(TensorSize(t, params)))
    /\ ~nullable_greater(Prod(TensorAllocation(t, params)), t.max_allocation_elements)

(***************************************************************************)
(* BinaryOpFuzzer.structure_params, binary.py:125-137                      *)
(*                                                                         *)
(* The call runs on a heap of dict objects: "arg" is the caller's mapping, *)
(* the local name params is a reference into the heap.  A frame holds the  *)
(* heap, the reference bound to params, the value of the last pop and      *)
(* whether KeyError has been raised; a raised frame skips what follows.    *)
(***************************************************************************)
EmptyDict == [k \in {} |-> 0]

Without(d, key) == [k \in DOMAIN d \ {key} |-> d[k]]
Put(d, key, v) == [k \in DOMAIN d \cup {key} |-> IF k = key THEN v ELSE d[k]]

\* str.startswith
StartsWith(str, prefix) ==
    /\ Len(str) >= Len(prefix)
    /\ SubSeq(str, 1, Len(prefix)) = prefix

Call(arg) == [heap |-> [r \in {"arg"} |-> arg], params |-> "arg",
              val |-> 0, raised |-> FALSE]

DictCopy_alias(f) == f

\* params = params.copy(), binary.py:127
DictCopy(f) ==
    [f EXCEPT !.heap = [r \in {"arg", "copy"} |-> f.heap[f.params]],
              !.params = "copy"]

DictPop_default(f, key) ==
    IF f.raised THEN f
    ELSE IF key \in DOMAIN f.heap[f.params]
         THEN [f EXCEPT !.heap[f.params] = Without(f.heap[f.params], key),
                        !.val = f.heap[f.params][key]]
         ELSE [f EXCEPT !.val = 1]

\* params.pop(key): KeyError when the key is absent.
DictPop(f, key) ==
    IF f.raised THEN f
    ELSE IF key \in DOMAIN f.heap[f.params]
         THEN [f EXCEPT !.heap[f.params] = Without(f.heap[f.params], key),
                        !.val = f.heap[f.params][key]]
         ELSE [f EXCEPT !.raised = TRUE]

\* params[key] = v
DictSet(f, key, v) ==
    IF f.raised THEN f
    ELSE [f EXCEPT !.heap[f.params] = Put(f.heap[f.params], key, v)]

IsIntermediate_narrow(k) == StartsWith(k, "k_any_") \/ StartsWith(k, "k_pow2_")

\* binary.py:130
IsIntermediate(k) == StartsWith(k, "k_any") \/ StartsWith(k, "k_pow2")

DropIntermediates_any(f) ==
    IF f.raised THEN f
    ELSE [f EXCEPT !.heap[f.params] =
            [k \in {j \in DOMAIN f.heap[f.params] : ~StartsWith(j, "k_any")}
                |-> f.heap[f.params][k]]]

\* binary.py:129-131: every key of the snapshot that matches is popped.
DropIntermediates(f) ==
    IF f.raised THEN f
    ELSE [f EXCEPT !.heap[f.params] =
            [k \in {j \in DOMAIN f.heap[f.params] : ~IsIntermediate(j)}
                |-> f.heap[f.params][k]]]

\* tuple(params.pop(i) for i in names): the pops run left to right, all of
\* them, before anything is sliced.
PopTuple(f, names) ==
    LET f1 == DictPop(f, names[1])
        f2 == DictPop(f1, names[2])
        f3 == DictPop(f2, names[3])
    IN  IF f3.raised THEN f3
        ELSE [f3 EXCEPT !.val = <<f1.val, f2.val, f3.val>>]

Truncate_all(t, dim) == t

\* [:dim], binary.py:133-136
Truncate(t, dim) == SliceTo(t, dim)

\* params[target] = tuple(params.pop(i) for i in names)[:dim]
Gather(f, target, names, dim) ==
    LET g == PopTuple(f, names)
    IN  IF g.raised THEN g ELSE DictSet(g, target, Truncate(g.val, dim))

structure_params(arg) ==
    LET f0 == DictCopy(Call(arg))
        f1 == DictPop(f0, "random_value")
        f2 == DropIntermediates(f1)
        f3 == DictPop(f2, "dim")
        dim == f3.val
        f4 == Gather(f3, "x_size", <<"k0", "k1", "k2">>, dim)
        f5 == Gather(f4, "x_steps", <<"x_step_0", "x_step_1", "x_step_2">>, dim)
        f6 == Gather(f5, "y_size", <<"y_k0", "y_k1", "y_k2">>, dim)
        f7 == Gather(f6, "y_steps", <<"y_step_0", "y_step_1", "y_step_2">>, dim)
    IN  [arg |-> f7.heap["arg"],
         outcome |-> IF f7.raised THEN "KeyError" ELSE "returned",
         ret |-> IF f7.raised THEN EmptyDict ELSE f7.heap[f7.params]]

(***************************************************************************)
(* State                                                                   *)
(***************************************************************************)
VARIABLES
    scale,      \* the scale= argument of the constructor
    pc,         \* "idle", "resolved", "params", "structured"
    raw,        \* the raw sample mapping held by the caller of structure_params
    given,      \* the raw sample as it was handed to structure_params
    outcome,    \* "none", "returned" or "KeyError"
    result      \* the mapping structure_params returned

vars == <<scale, pc, raw, given, outcome, result>>

\* BinaryOpFuzzer(seed, scale=...): nothing is drawn yet.
Init ==
    /\ scale \in Scales
    /\ pc = "idle"
    /\ raw = EmptyDict
    /\ given = EmptyDict
    /\ outcome = "none"
    /\ result = EmptyDict

\* The engine draws every parameter and resolves the aliases.
Resolve ==
    /\ pc = "idle"
    /\ \E wide \in Slices :
         \E draw \in Draws(parameters(scale), wide) :
            raw' = ResolveAliases(draw)
    /\ pc' = "resolved"
    /\ UNCHANGED <<scale, given, outcome, result>>

\* A candidate within the budgets of every tensor request is emitted.
Emit ==
    /\ pc = "resolved"
    /\ \A t \in tensors(scale) : satisfies_constraints(t, raw)
    /\ pc' = "params"
    /\ UNCHANGED <<scale, raw, given, outcome, result>>

\* A candidate outside a budget is dropped; the engine draws again.
Reject ==
    /\ pc = "resolved"
    /\ ~(\A t \in tensors(scale) : satisfies_constraints(t, raw))
    /\ pc' = "idle"
    /\ raw' = EmptyDict
    /\ UNCHANGED <<scale, given, outcome, result>>

\* The caller hands its raw sample to structure_params.
StructureParams ==
    /\ pc = "params"
    /\ given' = raw
    /\ raw' = structure_params(raw).arg
    /\ outcome' = structure_params(raw).outcome
    /\ result' = structure_params(raw).ret
    /\ pc' = "structured"
    /\ UNCHANGED scale

\* The harness consumes the case; the next trial starts afresh.
Consume ==
    /\ pc = "structured"
    /\ pc' = "idle"
    /\ raw' = EmptyDict
    /\ given' = EmptyDict
    /\ outcome' = "none"
    /\ result' = EmptyDict
    /\ UNCHANGED scale

Next == Resolve \/ Emit \/ Reject \/ StructureParams \/ Consume

Spec == Init /\ [][Next]_vars

(***************************************************************************)
(* structure_params as a standalone utility: the caller already holds a    *)
(* mapping, well formed or not.                                            *)
(***************************************************************************)
\* The keys structure_params pops by name, binary.py:128,132-136
RequiredKeys ==
    {"dim", "random_value", "k0", "k1", "k2", "y_k0", "y_k1", "y_k2",
     "x_step_0", "x_step_1", "x_step_2", "y_step_0", "y_step_1", "y_step_2"}

\* Most required keys a malformed mapping lacks, most foreign keys it holds.
MaxMissing == 1
MaxExtra == 1

\* Keys no declared parameter has; some share letters with the prefixes.
ExtraKeys == {"k3", "dtype", "k_any", "k_pow2x", "k_an", "y_k_any_0"}

\* Mappings with every declared key, the values varying per axis.
ValueSamples ==
    [dim          : 1..3,
     random_value : 0..MaxRandomValue,
     k_any_0 : {9}, k_any_1 : {9}, k_any_2 : {9},
     k_pow2_0 : {8}, k_pow2_1 : {8}, k_pow2_2 : {8},
     k0 : {8, 9}, k1 : {8, 9}, k2 : {8, 9},
     y_k0 : {1, 8}, y_k1 : {1, 8}, y_k2 : {1, 8},
     x_step_0 : {1, 2}, x_step_1 : {1, 2}, x_step_2 : {1, 2},
     y_step_0 : {4, 16}, y_step_1 : {4, 16}, y_step_2 : {4, 16}]

KeyBase(d) ==
    [dim |-> d, random_value |-> 0,
     k0 |-> 8, k1 |-> 9, k2 |-> 16,
     y_k0 |-> 8, y_k1 |-> 1, y_k2 |-> 16,
     x_step_0 |-> 1, x_step_1 |-> 2, x_step_2 |-> 4,
     y_step_0 |-> 16, y_step_1 |-> 8, y_step_2 |-> 1]

\* Mappings that lack required keys, hold the intermediate families of the
\* first n axes only, or hold foreign keys.
KeySamples ==
    {[k \in (RequiredKeys \ missing)
            \cup {KAnyName(i) : i \in PyRange(0, n)}
            \cup {KPow2Name(i) : i \in PyRange(0, n)}
            \cup extra
        |-> IF k \in RequiredKeys THEN KeyBase(d)[k]
            ELSE IF k \in extra THEN 7
            ELSE IF k \in {KAnyName(i) : i \in Axes} THEN 9 ELSE 8]
       : d \in 1..3,
         n \in 0..3,
         missing \in {m \in SUBSET RequiredKeys : Cardinality(m) <= MaxMissing},
         extra \in {e \in SUBSET ExtraKeys : Cardinality(e) <= MaxExtra}}

InitStandalone ==
    /\ scale = LARGE
    /\ pc = "params"
    /\ raw \in ValueSamples \cup KeySamples
    /\ given = EmptyDict
    /\ outcome = "none"
    /\ result = EmptyDict

NextStandalone == StructureParams

SpecStandalone == InitStandalone /\ [][NextStandalone]_vars

(***************************************************************************)
(* Properties                                                              *)
(***************************************************************************)
OutputKeys == {"x_size", "x_steps", "y_size", "y_steps"}

\* str is prefix followed by something.
LeadsWith(str, prefix) ==
    /\ Len(prefix) <= Len(str)
    /\ str = prefix \o SubSeq(str, Len(prefix) + 1, Len(str))

\* A raw sample is in hand and structure_params has not yet run on it.
Sampled == pc \in {"resolved", "params"}
Emitted == pc \in {"params", "structured"}
Returned == pc = "structured" /\ outcome = "returned"

\* The structured case of the trial in hand: what structure_params returns
\* for the sample, or what it did return.
Case == IF pc = "structured" THEN result ELSE structure_params(raw).ret
Sample0 == IF pc = "structured" THEN given ELSE raw

FirstOf(m, names, dim) == [i \in 1..dim |-> m[names[i]]]

\* C1: every resolved raw sample has dim in {1,2,3}, structure_params
\* returns for it, and x_size, x_steps, y_size and y_steps all have length dim.
C1_LengthsEqualDim ==
    (Sampled \/ pc = "structured") =>
        /\ Sample0["dim"] \in {1, 2, 3}
        /\ (pc = "structured" => outcome = "returned")
        /\ (Sampled => structure_params(raw).outcome = "returned")
        /\ \A key \in OutputKeys : Len(Case[key]) = Sample0["dim"]

C1_Witness ==
    /\ Returned
    /\ given["dim"] = 3
    /\ scale = LARGE
    /\ given["y_k2"] = 1

C3_NoIntermediateLeaks ==
    Returned =>
        /\ "random_value" \notin DOMAIN result
        /\ \A k \in DOMAIN result :
              ~LeadsWith(k, "k_any") /\ ~LeadsWith(k, "k_pow2")

C3_Witness ==
    /\ Returned
    /\ {"k_any_0", "k_any_1", "k_any_2", "k_pow2_0", "k_pow2_1", "k_pow2_2",
        "k_pow2x", "random_value"} \subseteq DOMAIN given

\* C4: for dim in {1,2,3} the four tuples are the first dim values of
\* (k0,k1,k2), (x_step_0..2), (y_k0..2), (y_step_0..2) in axis order;
\* nothing of an axis at or beyond dim enters the output.
C4_FirstDimInAxisOrder ==
    (Returned /\ given["dim"] \in {1, 2, 3}) =>
        /\ result["x_size"] = FirstOf(given, <<"k0", "k1", "k2">>, given["dim"])
        /\ result["x_steps"] =
              FirstOf(given, <<"x_step_0", "x_step_1", "x_step_2">>, given["dim"])
        /\ result["y_size"] = FirstOf(given, <<"y_k0", "y_k1", "y_k2">>, given["dim"])
        /\ result["y_steps"] =
              FirstOf(given, <<"y_step_0", "y_step_1", "y_step_2">>, given["dim"])

C4_Witness ==
    /\ Returned
    /\ given["dim"] = 2
    /\ given["k0"] = 9 /\ given["k1"] = 8 /\ given["k2"] = 9
    /\ given["y_step_1"] = 16 /\ given["y_step_2"] = 4
    /\ result["x_size"] = <<9, 8>>

\* The axis-size range of each scale as the property states it.
DimSizeRange(sc) ==
    CASE sc = SMALL  -> 8..128
      [] sc = MEDIUM -> 8..1024
      [] sc = LARGE  -> 8..(16 * 1024 * 1024)

Elements(t) == {t[i] : i \in 1..Len(t)}

\* C5: in every resolved trial of every scale each element of x_size lies in
\* [8, MAX_DIM_SIZE[scale]] and each element of y_size lies there or is 1,
\* whichever of the k_any / k_pow2 branches the axis took.
C5_SizesInRange ==
    (Sampled \/ pc = "structured") =>
        /\ \A v \in Elements(Case["x_size"]) : v \in DimSizeRange(scale)
        /\ \A v \in Elements(Case["y_size"]) : v \in DimSizeRange(scale) \/ v = 1

C5_Witness ==
    /\ Returned
    /\ scale = LARGE
    /\ given["dim"] = 2
    /\ given["k0"] = given["k_pow2_0"] /\ given["k0"] # given["k_any_0"]
    /\ given["k1"] = given["k_any_1"] /\ given["k1"] # given["k_pow2_1"]
    /\ result["x_size"] = <<16384, 8>>
    /\ result["y_size"] = <<16384, 1>>

\* C6: when one of the fourteen named keys is absent, structure_params ends
\* in KeyError and hands back no mapping: no default stands in for the
\* missing key and nothing partially built is returned.
C6_MissingKeyFails ==
    (pc = "structured" /\ ~(RequiredKeys \subseteq DOMAIN given)) =>
        /\ outcome = "KeyError"
        /\ result = EmptyDict

C6_Witness ==
    /\ pc = "structured"
    /\ "k2" \notin DOMAIN given
    /\ RequiredKeys \ {"k2"} \subseteq DOMAIN given
    /\ given["dim"] = 1
    /\ outcome = "KeyError"

\* The element floor of each scale as the property states it.
ElementFloor(sc) ==
    CASE sc = SMALL  -> 0
      [] sc = MEDIUM -> 128
      [] sc = LARGE  -> 4096

\* C7: every emitted trial has at least 128 elements in x at scale medium
\* and at least 4096 at scale large; at scale small the declared floor is 0,
\* which no resolved trial falls below.
C7_ElementFloor ==
    /\ Emitted => Prod(Case["x_size"]) >= ElementFloor(scale)
    /\ scale = SMALL =>
          /\ \A t \in tensors(scale) : t.name = "x" => t.min_elements = 0
          /\ Sampled =>
                \A t \in tensors(scale) :
                    ~nullable_greater(t.min_elements, Prod(TensorSize(t, raw)))

C7_Witness ==
    /\ Returned
    /\ scale = LARGE
    /\ given["dim"] = 2
    /\ given["k0"] = 8
    /\ Prod(result["x_size"]) = 8 * 16384

\* C8 as stated: the request for y carries the same upper bound on the
\* element count as the request for x, and y_size of every emitted trial
\* multiplies to at most 32*1024^2.
C8_SameDeclaredBound ==
    /\ \A tx \in tensors(scale), ty \in tensors(scale) :
          (tx.name = "x" /\ ty.name = "y") => ty.max_elements = tx.max_elements
    /\ Emitted => Prod(Case["y_size"]) <= 32 * 1024 * 1024

\* C8 amended: only the request for x declares the upper bound 32*1024^2
\* (the request for y passes no max_elements); all the same, in every emitted
\* trial the elements of y_size multiply to at most 32*1024^2, as those of
\* x_size do.
C8_BoundHoldsForY ==
    /\ \A t \in tensors(scale) :
          /\ t.name = "x" => t.max_elements = 32 * 1024 * 1024
          /\ t.name = "y" => t.max_elements = None
    /\ Emitted =>
          /\ Prod(Case["x_size"]) <= 32 * 1024 * 1024
          /\ Prod(Case["y_size"]) <= 32 * 1024 * 1024

C8_Witness ==
    /\ Returned
    /\ scale = LARGE
    /\ result["y_size"] = result["x_size"]
    /\ Prod(result["y_size"]) = 16 * 1024 * 1024

\* C9: after any call of structure_params, returned or failed, the caller's
\* mapping holds the keys and values it held before the call.
C9_ArgumentUntouched ==
    pc = "structured" => raw = given

C9_Witness ==
    /\ pc = "structured"
    /\ outcome = "KeyError"
    /\ {"random_value", "dim", "k0", "k1", "k2", "k_any_0"} \subseteq DOMAIN given
    /\ "y_k1" \notin DOMAIN given
    /\ raw = given

\* C10: in every resolved trial y is broadcast-compatible with x: on every
\* axis below dim, y_size is x_size or 1, y_k{i} being k{i} or 1.
C10_BroadcastCompatible ==
    (Sampled \/ pc = "structured") =>
        /\ \A i \in 1..Sample0["dim"] :
              Case["y_size"][i] \in {Case["x_size"][i], 1}
        /\ \A i \in Axes :
              Sample0[YKName(i)] \in {Sample0[KName(i)], 1}

C10_Witness ==
    /\ Returned
    /\ given["dim"] = 3
    /\ result["y_size"][1] = 1 /\ result["x_size"][1] > 1
    /\ result["y_size"][2] = result["x_size"][2] /\ result["x_size"][2] > 1
    /\ given["k1"] = given["k_pow2_1"] /\ given["k1"] # given["k_any_1"]
====
